---- MODULE Spec2Model ----
(***************************************************************************)
(* Key-rotating reverse proxy in front of the Gemini HTTP API.             *)
(*                                                                         *)
(* src/server.js holds the deployable programs of the repository one after *)
(* the other.  Two of them carry the key-rotation request-forwarding       *)
(* mechanism and are modelled here, selected by the variable `variant`:    *)
(*   "identify"  the hardened POST /identify server   (server.js 1-137,    *)
(*               the same handler with a response schema in                *)
(*               src/unnamed/part_000)                                     *)
(*   "proxy"     the transparent /v1/*, /v1beta/* proxy (server.js 138-241)*)
(* Each program is one Node.js process: module top-level code runs once    *)
(* (Startup), then request handlers run on the single event loop.  A       *)
(* handler runs without interruption between two awaits, so every action   *)
(* below is the code between one await and the next.                       *)
(*                                                                         *)
(* The route pattern '/v1/*' is Express 4 syntax: a handler's rejected      *)
(* promise is not caught by the framework, express.json()/express.raw()    *)
(* leave req.body = {} when there is no body to parse, and request targets *)
(* are in origin form (they start with "/").                               *)
(***************************************************************************)
EXTENDS Integers, Sequences, FiniteSets, TLC

\* Number of inbound requests (each with its own handler activation).
MaxReq == 2

Req == 1..MaxReq

VARIABLES
  variant,    \* which program of server.js is running
  env,        \* process.env, read at startup only
  phase,      \* "starting" | "exited" | "listening"
  exitCode,   \* process exit code, -1 while the process lives
  API_KEYS,   \* the credential pool, in load order
  keyIndex,   \* the rotation cursor (keyIndex / rrIndex), 0-based
  pc,         \* per request: position of its handler
  req,        \* per request: <<>> or <<inbound request>>
  apiKey,     \* per request: the handler's local `const apiKey`
  outbound,   \* per request: <<>> or <<outbound call in flight>>
  upstream,   \* per request: <<>> or <<upstream response as far as read>>
  res,        \* per request: the responses written to the client, in order
  nFetch,     \* per request: number of fetch() calls issued
  drawn       \* history: the keys returned by next(), in call order

vars == <<variant, env, phase, exitCode, API_KEYS, keyIndex, pc, req, apiKey,
          outbound, upstream, res, nFetch, drawn>>

----------------------------------------------------------------------------
(* JavaScript values *)

\* `undefined` for a string-valued slot (an unset variable, a missing field).
Undefined == "<undefined>"

\* Boolean(v) / !v on a string-or-undefined value: "" and undefined are falsy.
Falsy(v) == v \in {Undefined, ""}

----------------------------------------------------------------------------
(* Environment and key pool *)

\* Environment variable names, as the "_"-separated pieces of the name.
K1 == <<"GEMINI", "API", "KEY", "1">>
K2 == <<"GEMINI", "API", "KEY", "2">>
K3 == <<"GEMINI", "API", "KEY", "3">>
K4 == <<"GEMINI", "API", "KEY", "4">>
K5 == <<"GEMINI", "API", "KEY", "5">>
KPROD == <<"GEMINI", "API", "KEY", "PROD">>
KBARE == <<"GEMINI", "API", "KEY">>
PORTVAR == <<"PORT">>

\* Object.keys(process.env): the names in the order the platform lists them.
EnvOrder == <<K2, PORTVAR, K1, KPROD, K5, KBARE, K3, K4>>

EnvNames == {EnvOrder[i] : i \in 1..Len(EnvOrder)}

\* process.env with slots 1 and 2 and GEMINI_API_KEY_PROD as given;
\* GEMINI_API_KEY (no suffix) and PORT are always set, slots 3..5 never.
EnvOf(v1, v2, vprod) ==
  [n \in EnvNames |->
     CASE n = K1 -> v1
       [] n = K2 -> v2
       [] n = KPROD -> vprod
       [] n = KBARE -> "kD"
       [] n = PORTVAR -> "8080"
       [] OTHER -> Undefined]

\* The environments the model starts from: nothing set, the first slot
\* empty, only the non-numeric suffix set, a set slot after an empty one, two
\* slots set, and two slots plus the non-numeric one.
Envs ==
  { EnvOf(Undefined, Undefined, Undefined), EnvOf("", Undefined, Undefined),
    EnvOf(Undefined, Undefined, "kC"), EnvOf("", "kB", Undefined),
    EnvOf("kA", "kB", Undefined), EnvOf("kA", "kB", "kC") }

\* The environments of the pool-only specification: every combination.
PoolEnvs ==
  {EnvOf(v1, v2, vprod) : v1 \in {Undefined, "", "kA"}, v2 \in {Undefined, "kB", "kA"},
                          vprod \in {Undefined, "kC"}}

\* key.startsWith('GEMINI_API_KEY_')
StartsWithPrefix(n) ==
  /\ Len(n) >= 4
  /\ SubSeq(n, 1, 3) = <<"GEMINI", "API", "KEY">>

\* seq.filter(Boolean)
RECURSIVE FilterBoolean(_)
FilterBoolean(s) ==
  IF s = <<>> THEN <<>>
  ELSE IF Falsy(Head(s)) THEN FilterBoolean(Tail(s))
       ELSE <<Head(s)>> \o FilterBoolean(Tail(s))

\* Object.keys(process.env).filter(startsWith).map(key => process.env[key])
RECURSIVE ScanValues(_, _)
ScanValues(e, names) ==
  IF names = <<>> THEN <<>>
  ELSE IF e[Head(names)] # Undefined /\ StartsWithPrefix(Head(names))
       THEN <<e[Head(names)]>> \o ScanValues(e, Tail(names))
       ELSE ScanValues(e, Tail(names))

\* The hardened server's pool: prefix scan of the environment.
LoadKeysScan(e) == FilterBoolean(ScanValues(e, EnvOrder))

\* The proxy's pool: the five enumerated slots.
LoadKeysSlots(e) == FilterBoolean(<<e[K1], e[K2], e[K3], e[K4], e[K5]>>)

LoadKeys(v, e) == IF v = "identify" THEN LoadKeysScan(e) ELSE LoadKeysSlots(e)

\* A cursor that is not a number ((i + 1) % 0 in JavaScript).
NaN == -1

\* Faulty cursors: one that steps by two, one that never moves.
NextCursorSkip(i, n) == IF n = 0 THEN NaN ELSE (i + 2) % n
NextCursorStuck(i, n) == i

\* keyIndex = (keyIndex + 1) % API_KEYS.length
NextCursor(i, n) == IF n = 0 THEN NaN ELSE (i + 1) % n

\* API_KEYS[keyIndex]
KeyAt(keys, i) == IF i >= 0 /\ i < Len(keys) THEN keys[i + 1] ELSE Undefined

----------------------------------------------------------------------------
(* JSON values, as JSON.parse produces them and res.json() writes them *)

JUndefined == [t |-> "undefined"]
JNull == [t |-> "null"]
JStr(s) == [t |-> "string", s |-> s]
JNum(n) == [t |-> "number", n |-> n]
JBool(b) == [t |-> "boolean", bool |-> b]
JArr(a) == [t |-> "array", a |-> a]
JObj(f) == [t |-> "object", f |-> f]
\* A template literal with an interpolated value.
JTemplate(text, v) == [t |-> "string", text |-> text, v |-> v]
\* A Buffer of raw bytes.
JBytes(b) == [t |-> "buffer", b |-> b]

EmptyObject == JObj([k \in {} |-> JNull])

IsNullish(v) == v.t \in {"undefined", "null"}

\* v.k : a TypeError on null and undefined, undefined when there is no such key.
Prop(v, k) ==
  IF v.t = "object" /\ k \in DOMAIN v.f THEN v.f[k] ELSE JUndefined

\* v[0] on a value that is not nullish.
Index0(v) ==
  IF v.t = "array" /\ Len(v.a) >= 1 THEN v.a[1] ELSE JUndefined

\* v?.k and v?.[0]
OptProp(v, k) == IF IsNullish(v) THEN JUndefined ELSE Prop(v, k)
OptIndex0(v) == IF IsNullish(v) THEN JUndefined ELSE Index0(v)

\* if (v): the truthiness of a JSON value.
Truthy(v) ==
  CASE v.t = "undefined" -> FALSE
    [] v.t = "null" -> FALSE
    [] v.t = "string" -> v.s # ""
    [] v.t = "number" -> v.n # 0
    [] v.t = "boolean" -> v.bool
    [] OTHER -> TRUE

\* The identification answer of the success round trip.
GoodAnswer ==
  JObj([quality |-> JStr("good"), identifications |-> JArr(<<>>)])

\* The texts an upstream answer embeds, and JSON.parse of each: <<value>> or
\* <<>> for a SyntaxError.
EmbeddedTexts ==
  {"", "not json", "{\"quality\":\"good\",\"identifications\":[]}", "null"}

JSONParse(text) ==
  CASE text = "{\"quality\":\"good\",\"identifications\":[]}" -> <<GoodAnswer>>
    [] text = "null" -> <<JNull>>
    [] OTHER -> <<>>

\* {candidates: [{content: {parts: [part]}}]}
Envelope(part) ==
  JObj([candidates |->
          JArr(<<JObj([content |-> JObj([parts |-> JArr(<<part>>)])])>>)])

\* The JSON bodies the upstream may answer a success status with.
UpstreamData ==
  {Envelope(JObj([text |-> JStr(s)])) : s \in EmbeddedTexts}
  \cup
  { JNull,
    JObj([promptFeedback |-> JObj([blockReason |-> JStr("SAFETY")])]),
    JObj([candidates |-> JArr(<<>>)]),
    JObj([candidates |-> JArr(<<JObj([finishReason |-> JStr("SAFETY")])>>)]),
    JObj([candidates |-> JArr(<<JObj([content |-> JObj([parts |-> JArr(<<>>)])])>>)]),
    Envelope(JObj([inlineData |-> JStr("AAAA")])) }

\* data.candidates?.[0]?.content?.parts?.[0]?.text ; data.candidates itself
\* is a plain property access and throws on null.
ThrowsOnData(data) == IsNullish(data)

ExtractTextFirstPart(data) ==
  OptProp(OptIndex0(OptProp(OptProp(OptIndex0(Prop(data, "candidates")),
                                     "content"), "parts")), "text")

----------------------------------------------------------------------------
(* Startup: module top-level code *)

InitWith(environments) ==
  /\ variant \in {"identify", "proxy"}
  /\ env \in environments
  /\ phase = "starting"
  /\ exitCode = -1
  /\ API_KEYS = <<>>
  /\ keyIndex = 0
  /\ pc = [r \in Req |-> "idle"]
  /\ req = [r \in Req |-> <<>>]
  /\ apiKey = [r \in Req |-> Undefined]
  /\ outbound = [r \in Req |-> <<>>]
  /\ upstream = [r \in Req |-> <<>>]
  /\ res = [r \in Req |-> <<>>]
  /\ nFetch = [r \in Req |-> 0]
  /\ drawn = <<>>

Init == InitWith(Envs)

\* A startup without the emptiness check.
ExitsAtStartupNever(keys) == FALSE

\* if (API_KEYS.length === 0) process.exit(1)
ExitsAtStartup(keys) == Len(keys) = 0

\* Load the pool, exit(1) when it is empty, otherwise reach app.listen().
Startup ==
  /\ phase = "starting"
  /\ LET keys == LoadKeys(variant, env) IN
       /\ API_KEYS' = keys
       /\ IF ExitsAtStartup(keys)
          THEN phase' = "exited" /\ exitCode' = 1
          ELSE phase' = "listening" /\ exitCode' = exitCode
  /\ UNCHANGED <<variant, env, keyIndex, pc, req, apiKey, outbound, upstream,
                 res, nFetch, drawn>>

----------------------------------------------------------------------------
(* Responses *)

Response(status, ctype, body) == [status |-> status, ctype |-> ctype, body |-> body]

\* res.status(status).json(body)
JsonResponse(status, body) == Response(status, "application/json", body)

ErrObj(msg) == JObj([error |-> JStr(msg)])

\* A response written on the normal path.
Reply(log, response) == Append(log, response)

\* A catch block that logs and answers nothing.
CaughtSwallowed(log, response) == log

\* A catch block that sends the request through its handler again.
AfterCatchRetry == "idle"

\* Where a handler stands after its catch block: the block answers and the
\* handler returns.
AfterCatch == "done"

\* A response written by a catch block.
Caught(log, response) == Append(log, response)

\* GET /health (the timestamp is left out).
HealthResponse(v, n) ==
  IF v = "identify"
  THEN JsonResponse(200, JObj([status |-> JStr("ok"), message |-> JStr("Server is healthy"),
                               activeKeys |-> JNum(n)]))
  ELSE JsonResponse(200, JObj([ok |-> JBool(TRUE), keys |-> JNum(n)]))

Health(r) ==
  /\ phase = "listening"
  /\ pc[r] = "idle"
  /\ res' = [res EXCEPT ![r] = Reply(@, HealthResponse(variant, Len(API_KEYS)))]
  /\ pc' = [pc EXCEPT ![r] = "done"]
  /\ UNCHANGED <<variant, env, phase, exitCode, API_KEYS, keyIndex, req, apiKey,
                 outbound, upstream, nFetch, drawn>>

\* The catch block of /identify: 500 with the error's message.
InternalError(message) ==
  JsonResponse(500, JObj([error |-> JStr("An internal server error occurred."),
                          message |-> JStr(message)]))

----------------------------------------------------------------------------
(* POST /identify *)

IdentifyBodies ==
  [imageBase64 : {Undefined, "", "aW1hZ2U="},
   prompt : {Undefined, "Identify the component"}]

\* A validation that forgets the prompt (as the minimal server's does).
IsBadRequestImageOnly(body) == Falsy(body.imageBase64)

\* if (!imageBase64 || !prompt)
IsBadRequest(body) == Falsy(body.imageBase64) \/ Falsy(body.prompt)

BadRequestResponse ==
  JsonResponse(400, ErrObj("Request body must contain \"imageBase64\" and \"prompt\"."))

\* The statuses the upstream answers with; ok is 200..299.
UpstreamStatuses == {200, 404}

\* How an awaited promise settles: rejected, or fulfilled with a value.
Rejected == [failed |-> TRUE]
Fulfilled(v) == [failed |-> FALSE, v |-> v]
Settlements(values) == {Rejected} \cup {Fulfilled(v) : v \in values}

Ok(status) == status >= 200 /\ status <= 299

\* The call fetch(geminiUrl, {method, headers, body}) of /identify.
IdentifyCall(body, key) ==
  [method |-> "POST",
   path |-> <<"v1beta", "models", "gemini-2.5-flash:generateContent">>,
   query |-> << <<"key", key>> >>,
   headers |-> [h \in {"Content-Type"} |-> "application/json"],
   body |-> JObj([contents |-> JArr(<<JObj([parts |-> JArr(<<
                     JObj([text |-> JStr(body.prompt)]),
                     JObj([inlineData |-> JObj([mimeType |-> JStr("image/jpeg"),
                                                data |-> JStr(body.imageBase64)])])
                   >>)])>>),
                  generationConfig |->
                     JObj([responseMimeType |-> JStr("application/json")])])]

\* Handler entry up to the first await: validate, draw a key, issue the call.
Identify(r, body) ==
  /\ phase = "listening" /\ variant = "identify"
  /\ pc[r] = "idle"
  /\ req' = [req EXCEPT ![r] = <<body>>]
  /\ IF IsBadRequest(body)
     THEN /\ res' = [res EXCEPT ![r] = Reply(@, BadRequestResponse)]
          /\ pc' = [pc EXCEPT ![r] = "done"]
          /\ UNCHANGED <<keyIndex, apiKey, outbound, nFetch, drawn>>
     ELSE LET key == KeyAt(API_KEYS, keyIndex) IN
          /\ keyIndex' = NextCursor(keyIndex, Len(API_KEYS))
          /\ drawn' = Append(drawn, [i |-> keyIndex, key |-> key])
          /\ apiKey' = [apiKey EXCEPT ![r] = key]
          /\ outbound' = [outbound EXCEPT ![r] = <<IdentifyCall(body, key)>>]
          /\ nFetch' = [nFetch EXCEPT ![r] = @ + 1]
          /\ pc' = [pc EXCEPT ![r] = "awaitFetch"]
          /\ res' = res
  /\ UNCHANGED <<variant, env, phase, exitCode, API_KEYS, upstream>>

\* await fetch(...) settles: a rejection lands in the catch block, a response
\* goes on to text() or json() depending on geminiResponse.ok.
IdentifyFetchSettles(r, settled) ==
  /\ variant = "identify" /\ pc[r] = "awaitFetch"
  /\ outbound' = [outbound EXCEPT ![r] = <<>>]
  /\ IF settled.failed
     THEN /\ res' = [res EXCEPT ![r] = Caught(@, InternalError("fetch failed"))]
          /\ pc' = [pc EXCEPT ![r] = AfterCatch]
          /\ upstream' = upstream
     ELSE /\ upstream' = [upstream EXCEPT ![r] =
                            <<[status |-> settled.v, ctype |-> "application/json",
                               body |-> JUndefined]>>]
          /\ pc' = [pc EXCEPT ![r] = IF Ok(settled.v) THEN "awaitJson" ELSE "awaitText"]
          /\ res' = res
  /\ UNCHANGED <<variant, env, phase, exitCode, API_KEYS, keyIndex, req, apiKey,
                 nFetch, drawn>>

\* The response to a non-ok upstream status: the status forwarded with details.
ForwardedError(status, errorText) ==
  JsonResponse(status, JObj([error |-> JTemplate("Gemini API request failed with status ", status),
                             details |-> JStr(errorText)]))

ErrorTexts == {"", "{\"error\":{\"code\":429,\"status\":\"RESOURCE_EXHAUSTED\"}}"}

\* await geminiResponse.text() settles on the !ok branch.
IdentifyTextSettles(r, settled) ==
  /\ variant = "identify" /\ pc[r] = "awaitText"
  /\ IF settled.failed
     THEN /\ res' = [res EXCEPT ![r] = Caught(@, InternalError("terminated"))]
          /\ upstream' = upstream
          /\ pc' = [pc EXCEPT ![r] = AfterCatch]
     ELSE /\ upstream' = [upstream EXCEPT ![r] = <<[@[1] EXCEPT !.body = JStr(settled.v)]>>]
          /\ res' = [res EXCEPT ![r] =
                       Reply(@, ForwardedError(upstream[r][1].status, settled.v))]
          /\ pc' = [pc EXCEPT ![r] = "done"]
  /\ UNCHANGED <<variant, env, phase, exitCode, API_KEYS, keyIndex, req, apiKey,
                 outbound, nFetch, drawn>>

\* A test for presence instead of truthiness.
TextUsablePresent(jsonText) == jsonText.t # "undefined"

\* if (jsonText)
TextUsable(jsonText) == Truthy(jsonText)

\* The else branch: 400 with the whole upstream body as details.
BlockedResponse(data) ==
  JsonResponse(400, JObj([error |-> JStr("AI response was empty or blocked."),
                          details |-> data]))

InvalidFormatResponse == JsonResponse(500, ErrObj("AI returned an invalid JSON format."))

\* Lines after `const data = await geminiResponse.json()`: extract the text,
\* parse it a second time, answer.
RelayIdentify(data) ==
  IF ThrowsOnData(data)
  THEN InternalError("Cannot read properties of null (reading 'candidates')")
  ELSE LET jsonText == ExtractTextFirstPart(data) IN
       IF TextUsable(jsonText)
       THEN LET parsed == JSONParse(jsonText.s) IN
            IF parsed = <<>> THEN InvalidFormatResponse
            ELSE JsonResponse(200, parsed[1])
       ELSE BlockedResponse(data)

\* await geminiResponse.json() settles.
IdentifyJsonSettles(r, settled) ==
  /\ variant = "identify" /\ pc[r] = "awaitJson"
  /\ IF settled.failed
     THEN /\ res' = [res EXCEPT ![r] =
                       Caught(@, InternalError("Unexpected token < in JSON at position 0"))]
          /\ upstream' = upstream
          /\ pc' = [pc EXCEPT ![r] = AfterCatch]
     ELSE /\ upstream' = [upstream EXCEPT ![r] = <<[@[1] EXCEPT !.body = settled.v]>>]
          /\ res' = [res EXCEPT ![r] = Reply(@, RelayIdentify(settled.v))]
          /\ pc' = [pc EXCEPT ![r] = "done"]
  /\ UNCHANGED <<variant, env, phase, exitCode, API_KEYS, keyIndex, req, apiKey,
                 outbound, nFetch, drawn>>

----------------------------------------------------------------------------
(* ANY /v1/*, /v1beta/* : handleProxy *)

\* What the client sends as credentials of its own.
ClientSecrets == {"Bearer client-token", "sid=client", "CLIENT_KEY", "CLIENT_KEY_2"}

ProxyMethods == {"GET", "HEAD", "POST"}

\* Request paths, as segments; both routes, and one with dot segments.
ProxyPaths ==
  { <<"v1", "models">>,
    <<"v1beta", "models", "..", "..", "upload", "files">> }

\* What a client sends besides method and path: the query string, as
\* name/value pairs in order, and the header list as the client wrote it.
\* One client sends no credential of its own, the other sends them all.
PlainClient ==
  [query |-> << <<"alt", "sse">> >>,
   rawHeaders |-> [h \in {"Accept", "Host"} |->
                     IF h = "Host" THEN "proxy.example" ELSE "*/*"]]

KeyedClient ==
  [query |-> << <<"key", "CLIENT_KEY">>, <<"alt", "sse">>, <<"key", "CLIENT_KEY_2">> >>,
   rawHeaders |->
    [h \in {"Authorization", "COOKIE", "x-goog-api-key", "Host", "Content-Length",
            "connection", "Accept", "content-type"} |->
       CASE h = "Authorization" -> "Bearer client-token"
         [] h = "COOKIE" -> "sid=client"
         [] h = "x-goog-api-key" -> "CLIENT_KEY"
         [] h = "Host" -> "proxy.example"
         [] h = "Content-Length" -> "2"
         [] h = "connection" -> "keep-alive"
         [] h = "Accept" -> "*/*"
         [] OTHER -> "application/json"]]

\* req.body after express.raw: a Buffer, or {} when there was no body to parse.
ProxyBody(method) == IF method = "POST" THEN JBytes("{\"contents\":[]}") ELSE EmptyObject

ProxyRequests ==
  {[method |-> m, path |-> p, query |-> c.query, rawHeaders |-> c.rawHeaders,
    body |-> ProxyBody(m)] :
     m \in ProxyMethods, p \in ProxyPaths, c \in {PlainClient, KeyedClient}}

\* String.prototype.toLowerCase on header names.
ToLowerCase(k) ==
  CASE k = "Authorization" -> "authorization"
    [] k = "COOKIE" -> "cookie"
    [] k = "Host" -> "host"
    [] k = "Content-Length" -> "content-length"
    [] k = "Accept" -> "accept"
    [] OTHER -> k

\* req.headers: Node's header object, keyed by the lower-cased names.
ReqHeaders(raw) ==
  [lk \in {ToLowerCase(k) : k \in DOMAIN raw} |->
     raw[CHOOSE k \in DOMAIN raw : ToLowerCase(k) = lk]]

\* new URL(originalUrl, GEMINI_BASE): the path with its dot segments resolved.
RECURSIVE ResolveDots(_, _)
ResolveDots(segs, acc) ==
  IF segs = <<>> THEN acc
  ELSE IF Head(segs) = "." THEN ResolveDots(Tail(segs), acc)
  ELSE IF Head(segs) = ".."
       THEN ResolveDots(Tail(segs),
                        IF acc = <<>> THEN acc ELSE SubSeq(acc, 1, Len(acc) - 1))
  ELSE ResolveDots(Tail(segs), Append(acc, Head(segs)))

URLPath(path) == ResolveDots(path, <<>>)

\* urlObj.searchParams.delete(name): every pair of that name goes.
RECURSIVE DeleteParam(_, _)
DeleteParam(query, name) ==
  IF query = <<>> THEN <<>>
  ELSE IF Head(query)[1] = name THEN DeleteParam(Tail(query), name)
  ELSE <<Head(query)>> \o DeleteParam(Tail(query), name)

\* A denylist without the cookie header.
StrippedHeadersNoCookie ==
  {"host", "content-length", "authorization", "x-goog-api-key", "connection"}

\* The headers never copied to the upstream.
StrippedHeaders ==
  {"host", "content-length", "authorization", "x-goog-api-key", "cookie", "connection"}

\* The header loop, then headers['x-goog-api-key'] = apiKey.
ProxyHeaders(h, key) ==
  [k \in {n \in DOMAIN h : ToLowerCase(n) \notin StrippedHeaders} \cup {"x-goog-api-key"} |->
     IF k = "x-goog-api-key" THEN key ELSE h[k]]

\* !['GET', 'HEAD'].includes(req.method.toUpperCase()); Node hands methods
\* over in upper case.
HasBody(method) == method \notin {"GET", "HEAD"}

\* The call fetch(targetUrl, {method, headers, body}) of handleProxy.
ProxyCall(request, key) ==
  [method |-> request.method,
   path |-> URLPath(request.path),
   query |-> DeleteParam(request.query, "key"),
   headers |-> ProxyHeaders(ReqHeaders(request.rawHeaders), key),
   body |-> IF HasBody(request.method) THEN request.body ELSE JUndefined]

\* Handler entry up to the first await: build the call, draw a key, issue it.
HandleProxy(r, request) ==
  /\ phase = "listening" /\ variant = "proxy"
  /\ pc[r] = "idle"
  /\ LET key == KeyAt(API_KEYS, keyIndex) IN
       /\ keyIndex' = NextCursor(keyIndex, Len(API_KEYS))
       /\ drawn' = Append(drawn, [i |-> keyIndex, key |-> key])
       /\ apiKey' = [apiKey EXCEPT ![r] = key]
       /\ outbound' = [outbound EXCEPT ![r] = <<ProxyCall(request, key)>>]
  /\ req' = [req EXCEPT ![r] = <<request>>]
  /\ nFetch' = [nFetch EXCEPT ![r] = @ + 1]
  /\ pc' = [pc EXCEPT ![r] = "awaitFetch"]
  /\ UNCHANGED <<variant, env, phase, exitCode, API_KEYS, upstream, res>>

\* A catch block answering 500 instead of 502.
ProxyFailedAs500(message) ==
  JsonResponse(500, JObj([ok |-> JBool(FALSE), error |-> JStr("PROXY_REQUEST_FAILED"),
                          message |-> JStr(message)]))

\* The catch block of handleProxy.
ProxyFailed(message) ==
  JsonResponse(502, JObj([ok |-> JBool(FALSE), error |-> JStr("PROXY_REQUEST_FAILED"),
                          message |-> JStr(message)]))

UpstreamContentTypes == {Undefined, "text/event-stream"}

\* Status line and headers of an upstream response.
UpstreamHeads == [status : UpstreamStatuses, ctype : UpstreamContentTypes]

\* await fetch(...) settles.  The handler's urlObj, headers and bodyToSend
\* are last read by the fetch call; the model lets go of them here.
ProxyFetchSettles(r, settled) ==
  /\ variant = "proxy" /\ pc[r] = "awaitFetch"
  /\ outbound' = [outbound EXCEPT ![r] = <<>>]
  /\ req' = [req EXCEPT ![r] = <<>>]
  /\ IF settled.failed
     THEN /\ res' = [res EXCEPT ![r] = Caught(@, ProxyFailed("fetch failed"))]
          /\ pc' = [pc EXCEPT ![r] = AfterCatch]
          /\ upstream' = upstream
     ELSE /\ upstream' = [upstream EXCEPT ![r] =
                            <<[status |-> settled.v.status, ctype |-> settled.v.ctype,
                               body |-> JUndefined]>>]
          /\ pc' = [pc EXCEPT ![r] = "awaitBuffer"]
          /\ res' = res
  /\ UNCHANGED <<variant, env, phase, exitCode, API_KEYS, keyIndex, apiKey,
                 nFetch, drawn>>

UpstreamBytes == {"", "{\"ok\":true}"}

\* if (contentType) res.setHeader(...); res.status(resp.status).send(buffer).
\* send() labels a Buffer application/octet-stream when no type was set.
RelayProxy(up) ==
  Response(up.status,
           IF Falsy(up.ctype) THEN "application/octet-stream" ELSE up.ctype,
           up.body)

\* await resp.arrayBuffer() settles.
ProxyBufferSettles(r, settled) ==
  /\ variant = "proxy" /\ pc[r] = "awaitBuffer"
  /\ IF settled.failed
     THEN /\ res' = [res EXCEPT ![r] = Caught(@, ProxyFailed("terminated"))]
          /\ upstream' = upstream
          /\ pc' = [pc EXCEPT ![r] = AfterCatch]
     ELSE LET up == [upstream[r][1] EXCEPT !.body = JBytes(settled.v)] IN
          /\ upstream' = [upstream EXCEPT ![r] = <<up>>]
          /\ res' = [res EXCEPT ![r] = Reply(@, RelayProxy(up))]
          /\ pc' = [pc EXCEPT ![r] = "done"]
  /\ UNCHANGED <<variant, env, phase, exitCode, API_KEYS, keyIndex, req, apiKey,
                 outbound, nFetch, drawn>>

----------------------------------------------------------------------------
(* The system *)

Next ==
  \/ Startup
  \/ \E r \in Req : Health(r)
  \/ \E r \in Req, body \in IdentifyBodies : Identify(r, body)
  \/ \E r \in Req, settled \in Settlements(UpstreamStatuses) :
       IdentifyFetchSettles(r, settled)
  \/ \E r \in Req, settled \in Settlements(ErrorTexts) : IdentifyTextSettles(r, settled)
  \/ \E r \in Req, settled \in Settlements(UpstreamData) : IdentifyJsonSettles(r, settled)
  \/ \E r \in Req, request \in ProxyRequests : HandleProxy(r, request)
  \/ \E r \in Req, settled \in Settlements(UpstreamHeads) : ProxyFetchSettles(r, settled)
  \/ \E r \in Req, settled \in Settlements(UpstreamBytes) : ProxyBufferSettles(r, settled)

Spec == Init /\ [][Next]_vars

\* Every awaited promise settles: the outbound call returns or fails, and so
\* does the reading of its body.
Settles(r) ==
  \/ \E settled \in Settlements(UpstreamStatuses) : IdentifyFetchSettles(r, settled)
  \/ \E settled \in Settlements(ErrorTexts) : IdentifyTextSettles(r, settled)
  \/ \E settled \in Settlements(UpstreamData) : IdentifyJsonSettles(r, settled)
  \/ \E settled \in Settlements(UpstreamHeads) : ProxyFetchSettles(r, settled)
  \/ \E settled \in Settlements(UpstreamBytes) : ProxyBufferSettles(r, settled)

FairSpec == Spec /\ \A r \in Req : WF_vars(Settles(r))

----------------------------------------------------------------------------
(* The key pool on its own: startup, then calls of next() *)

\* Number of next() calls in the pool-only specification.
MaxCalls == 5

\* getNextApiKey() / nextKey(): return the key at the cursor, advance it.
CallNext ==
  /\ phase = "listening"
  /\ Len(drawn) < MaxCalls
  /\ drawn' = Append(drawn, [i |-> keyIndex, key |-> KeyAt(API_KEYS, keyIndex)])
  /\ keyIndex' = NextCursor(keyIndex, Len(API_KEYS))
  /\ UNCHANGED <<variant, env, phase, exitCode, API_KEYS, pc, req, apiKey, outbound,
                 upstream, res, nFetch>>

PoolNext == Startup \/ CallNext

PoolSpec == InitWith(PoolEnvs) /\ [][PoolNext]_vars

----------------------------------------------------------------------------
(* Properties *)

\* The one response a finished request got.
Answer(r) == res[r][1]

\* C1: round-robin.  With a pool of N >= 1 keys the k-th call of next()
\* (k = 0, 1, 2, ...) returns the key at index k mod N; any N consecutive
\* calls visit every pool position exactly once, in pool order, and the call
\* after them returns what the first of them returned.
RoundRobin ==
  phase = "listening" =>
    LET n == Len(API_KEYS) IN
    /\ n >= 1
    /\ \A k \in 1..Len(drawn) : drawn[k].key = API_KEYS[((k - 1) % n) + 1]
    /\ \A s \in 1..Len(drawn) :
         s + n - 1 <= Len(drawn) =>
           /\ {drawn[s + j].i : j \in 0..(n - 1)} = 0..(n - 1)
           /\ \A j \in 0..(n - 1) :
                /\ drawn[s + j].i = (drawn[s].i + j) % n
                /\ drawn[s + j].key = API_KEYS[drawn[s + j].i + 1]
    /\ \A s \in 1..Len(drawn) : s + n <= Len(drawn) => drawn[s + n] = drawn[s]

\* A pool of three keys after five calls: the window of three calls that
\* starts at the second pool position, and the call after it.
RoundRobinWitness ==
  /\ Len(API_KEYS) = 3
  /\ Len(drawn) >= 5
  /\ drawn[5] = drawn[2]
  /\ drawn[2].i = 1

\* C2: startup precondition.  An environment without a non-empty
\* GEMINI_API_KEY_* value (an empty pool) ends the process with a non-zero
\* exit code; the server listens, and a request is handled, only with a
\* non-empty pool.
NoCredentialInEnv == \A n \in EnvNames : StartsWithPrefix(n) => Falsy(env[n])

StartupPrecondition ==
  /\ phase = "listening" => Len(API_KEYS) >= 1
  /\ (phase # "starting" /\ (NoCredentialInEnv \/ Len(API_KEYS) = 0)) =>
       (phase = "exited" /\ exitCode >= 1)
  /\ phase # "listening" =>
       \A r \in Req : pc[r] = "idle" /\ res[r] = <<>> /\ nFetch[r] = 0
  /\ exitCode = -1 <=> phase # "exited"

\* The process has exited at startup on an environment with no credential.
StartupPreconditionWitness ==
  phase = "exited" /\ exitCode = 1 /\ NoCredentialInEnv /\ env[K1] = ""

\* C3: input validation.  A POST /identify whose body lacks imageBase64 or
\* prompt is answered 400 with an error message, and no outbound call is
\* made and no key drawn for it.
MissingField(body) == body.imageBase64 = Undefined \/ body.prompt = Undefined

InputValidation ==
  \A r \in Req :
    (variant = "identify" /\ req[r] # <<>> /\ MissingField(req[r][1])) =>
      /\ pc[r] = "done"
      /\ Len(res[r]) = 1
      /\ Answer(r).status = 400
      /\ Prop(Answer(r).body, "error").t = "string"
      /\ nFetch[r] = 0 /\ outbound[r] = <<>> /\ upstream[r] = <<>>
      /\ apiKey[r] = Undefined

\* A request with an image and no prompt was answered 400.
InputValidationWitness ==
  \E r \in Req :
    /\ variant = "identify" /\ req[r] # <<>>
    /\ req[r][1].imageBase64 = "aW1hZ2U=" /\ req[r][1].prompt = Undefined
    /\ pc[r] = "done" /\ Answer(r).status = 400

\* /identify got a success status and read its JSON body.
IdentifyAnswered(r) ==
  /\ variant = "identify" /\ pc[r] = "done"
  /\ upstream[r] # <<>>
  /\ Ok(upstream[r][1].status)
  /\ upstream[r][1].body.t # "undefined"

\* The text at candidates[0].content.parts[0].text of a JSON body.
EmbeddedText(data) ==
  IF IsNullish(data) THEN JUndefined ELSE ExtractTextFirstPart(data)

\* C4 as stated: on an upstream success status the answer is decided by the
\* embedded text: absent gives 400 with the upstream body as details,
\* present but not JSON gives 500 (invalid AI output format), present and
\* JSON gives 200 with the parsed value.
StructuredRelayAsStated ==
  \A r \in Req :
    IdentifyAnswered(r) =>
      LET data == upstream[r][1].body
          text == EmbeddedText(data)
      IN  /\ Len(res[r]) = 1
          /\ IF text.t = "undefined"
             THEN Answer(r).status = 400 /\ Prop(Answer(r).body, "details") = data
             ELSE IF JSONParse(text.s) = <<>>
                  THEN Answer(r) = InvalidFormatResponse
                  ELSE Answer(r) = JsonResponse(200, JSONParse(text.s)[1])

\* C4, amended: an absent or empty text gives 400 with the upstream body as
\* details; a non-empty text that is not JSON gives 500 (invalid AI output
\* format); a non-empty text that is JSON gives 200 with the parsed value; a
\* JSON body of null gives 500 (internal error).  After any of them the
\* process still listens.
StructuredRelay ==
  \A r \in Req :
    IdentifyAnswered(r) =>
      LET data == upstream[r][1].body
          text == EmbeddedText(data)
      IN  /\ Len(res[r]) = 1
          /\ phase = "listening" /\ exitCode = -1
          /\ IF data.t = "null"
             THEN /\ Answer(r).status = 500
                  /\ Prop(Answer(r).body, "message").t = "string"
             ELSE IF text.t = "undefined" \/ text.s = ""
             THEN Answer(r).status = 400 /\ Prop(Answer(r).body, "details") = data
             ELSE IF JSONParse(text.s) = <<>>
                  THEN Answer(r) = InvalidFormatResponse
                  ELSE Answer(r) = JsonResponse(200, JSONParse(text.s)[1])

\* One request got 400 for an empty text, another 500 for a text that is not
\* JSON.
StructuredRelayWitness ==
  \E r, q \in Req :
    /\ IdentifyAnswered(r) /\ IdentifyAnswered(q)
    /\ EmbeddedText(upstream[r][1].body) = JStr("") /\ Answer(r).status = 400
    /\ EmbeddedText(upstream[q][1].body) = JStr("not json")
    /\ Answer(q) = InvalidFormatResponse

\* The outbound call of r was made and is over.
CallOver(r) == pc[r] = "done" /\ nFetch[r] >= 1

\* ... it failed below HTTP: fetch() rejected, or reading the body did.
NetworkFailure(r) ==
  CallOver(r) /\ (upstream[r] = <<>> \/ upstream[r][1].body.t = "undefined")

\* ... it returned a non-success status and the body was read.
ErrorStatus(r) ==
  /\ CallOver(r) /\ upstream[r] # <<>>
  /\ ~Ok(upstream[r][1].status) /\ upstream[r][1].body.t # "undefined"

\* C5 as stated: when the upstream call fails, by a non-success status or by
\* a network-level failure, /identify forwards the upstream's status code and
\* the proxy routes answer 502.
FailureMappingAsStated ==
  \A r \in Req :
    (NetworkFailure(r) \/ ErrorStatus(r)) =>
      /\ Len(res[r]) = 1
      /\ IF variant = "identify"
         THEN upstream[r] # <<>> /\ Answer(r).status = upstream[r][1].status
         ELSE Answer(r).status = 502

\* C5, amended: /identify forwards a non-success upstream status with the
\* upstream text as details, and answers a network-level failure with 500 and
\* the error's message; the proxy routes answer a network-level failure with
\* 502 and the error's message, and relay a non-success upstream status
\* unchanged.
FailureMapping ==
  \A r \in Req :
    /\ ErrorStatus(r) =>
         /\ Len(res[r]) = 1
         /\ Answer(r).status = upstream[r][1].status
         /\ IF variant = "identify"
            THEN /\ Prop(Answer(r).body, "details") = upstream[r][1].body
                 /\ Prop(Answer(r).body, "error").t = "string"
            ELSE Answer(r).body = upstream[r][1].body
    /\ NetworkFailure(r) =>
         /\ Len(res[r]) = 1
         /\ Answer(r).status = IF variant = "identify" THEN 500 ELSE 502
         /\ Prop(Answer(r).body, "error").t = "string"
         /\ Prop(Answer(r).body, "message").t = "string"

\* /identify met both kinds of failure: a rejected fetch and a 404.
FailureMappingWitness ==
  \E r, q \in Req :
    /\ variant = "identify"
    /\ NetworkFailure(r) /\ upstream[r] = <<>> /\ Answer(r).status = 500
    /\ ErrorStatus(q) /\ Answer(q).status = 404

\* The upstream answered a proxied request and its body was read.
ProxyAnswered(r) ==
  /\ variant = "proxy" /\ pc[r] = "done"
  /\ upstream[r] # <<>> /\ upstream[r][1].body.t # "undefined"

\* The relay half of C6: status, body and (when present) content-type of
\* the upstream response reach the client unchanged.
ProxyRelay ==
  \A r \in Req :
    ProxyAnswered(r) =>
      /\ Len(res[r]) = 1
      /\ Answer(r).status = upstream[r][1].status
      /\ Answer(r).body = upstream[r][1].body
      /\ ~Falsy(upstream[r][1].ctype) => Answer(r).ctype = upstream[r][1].ctype

\* C6: transparent pass-through.  The client sees the upstream's status and
\* body, and its content-type when present; the upstream receives the
\* method and the path of the inbound request, and a body only when the
\* method is not GET or HEAD.
TransparentPassThrough ==
  /\ ProxyRelay
  /\ \A r \in Req :
       (variant = "proxy" /\ outbound[r] # <<>>) =>
         /\ outbound[r][1].method = req[r][1].method
         /\ outbound[r][1].path = req[r][1].path
         /\ outbound[r][1].body.t # "undefined" =>
              req[r][1].method \notin {"GET", "HEAD"}

\* The header names under which a client sends credentials.
CredentialHeaders == {"authorization", "cookie", "x-goog-api-key"}

\* C7: credential substitution.  The outbound call of a proxied request has
\* no `key` query parameter, no authorization or cookie header, none of the
\* client's credential values, and exactly one x-goog-api-key header, whose
\* value is the key next() returned to this request.
CredentialSubstitution ==
  \A r \in Req :
    (variant = "proxy" /\ outbound[r] # <<>>) =>
      LET call == outbound[r][1] IN
      /\ \A i \in 1..Len(call.query) :
           call.query[i][1] # "key" /\ call.query[i][2] \notin ClientSecrets
      /\ \A k \in DOMAIN call.headers :
           /\ ToLowerCase(k) \notin {"authorization", "cookie"}
           /\ call.headers[k] \notin ClientSecrets
      /\ {k \in DOMAIN call.headers : ToLowerCase(k) = "x-goog-api-key"}
           = {"x-goog-api-key"}
      /\ call.headers["x-goog-api-key"] = apiKey[r]
      /\ drawn # <<>> /\ \E k \in 1..Len(drawn) : drawn[k].key = apiKey[r]

\* A client that sent a key parameter and all three credential headers has
\* its request in flight.
CredentialSubstitutionWitness ==
  \E r \in Req :
    /\ variant = "proxy" /\ outbound[r] # <<>>
    /\ req[r][1].query = KeyedClient.query
    /\ CredentialHeaders \subseteq DOMAIN ReqHeaders(req[r][1].rawHeaders)
    /\ Len(outbound[r][1].query) = 1

Drew == {r \in Req : nFetch[r] >= 1}

\* The credential an outbound call carries.
CredentialOf(call) ==
  IF variant = "identify" THEN call.query[1][2] ELSE call.headers["x-goog-api-key"]

\* C9: no lost updates.  With handlers interleaved at their awaits, after k
\* calls of next() the cursor is k mod N, the i-th call returned the key at
\* index i mod N, every call's key is held by exactly one request, and a call
\* in flight carries the key its own request drew.
NoLostUpdates ==
  phase = "listening" =>
    LET n == Len(API_KEYS) IN
    /\ Len(drawn) = Cardinality(Drew)
    /\ keyIndex = Len(drawn) % n
    /\ \A k \in 1..Len(drawn) :
         drawn[k] = [i |-> (k - 1) % n, key |-> API_KEYS[((k - 1) % n) + 1]]
    /\ \A i \in 1..n :
         Cardinality({r \in Drew : apiKey[r] = API_KEYS[i]})
           = Cardinality({k \in 1..Len(drawn) : drawn[k].key = API_KEYS[i]})
    /\ \A r \in Req :
         /\ r \notin Drew => apiKey[r] = Undefined /\ outbound[r] = <<>>
         /\ outbound[r] # <<>> => CredentialOf(outbound[r][1]) = apiKey[r]

\* Two calls in flight at once, with different keys.
NoLostUpdatesWitness ==
  \E r, q \in Req :
    /\ outbound[r] # <<>> /\ outbound[q] # <<>>
    /\ apiKey[r] # apiKey[q]
    /\ CredentialOf(outbound[r][1]) = "kA" /\ CredentialOf(outbound[q][1]) = "kB"

\* The requests a handler has run for.
Handled == {r \in Req : pc[r] # "idle"}

\* C10 as stated: every handled request advances the cursor by one, so after
\* R handled requests the cursor is R mod N.
CursorPerRequest ==
  phase = "listening" => keyIndex = Cardinality(Handled) % Len(API_KEYS)

\* C10, amended: every request that is forwarded to the upstream (a valid
\* POST /identify, any proxied request) advances the cursor by one, a
\* request answered without an outbound call (GET /health, a POST /identify
\* that fails validation) leaves it, so the cursor is the number of
\* forwarded requests mod N; nothing else changes it, and the pool is what
\* startup loaded.
CursorPerForward ==
  /\ [](phase = "listening" => keyIndex = Cardinality(Drew) % Len(API_KEYS))
  /\ [](phase # "starting" => API_KEYS = LoadKeys(variant, env))
  /\ [][ /\ phase = "listening" => API_KEYS' = API_KEYS
         /\ IF \E r \in Req : nFetch'[r] = nFetch[r] + 1
            THEN keyIndex' = (keyIndex + 1) % Len(API_KEYS)
            ELSE keyIndex' = keyIndex ]_vars

\* Two requests handled, one of them refused without a call: the cursor of a
\* two-key pool stands at 1.
CursorPerForwardWitness ==
  \E r, q \in Req :
    /\ Len(API_KEYS) = 2 /\ keyIndex = 1
    /\ pc[r] = "done" /\ nFetch[r] = 0 /\ Answer(r).status = 400
    /\ nFetch[q] = 1

\* The outbound calls issued so far, one element per call.
Calls == UNION {{<<r, k>> : k \in 1..nFetch[r]} : r \in Req}

\* C11: single attempt, no retry.  A request causes at most one outbound
\* call and one draw from the pool: there are as many draws as calls; a
\* handler past its fetch never issues another call, and one that is over
\* (after a network error, an upstream error status or anything else) has
\* answered once, keeps its key and has no call in flight; a step draws a
\* key exactly when it issues a call.
SingleAttempt ==
  /\ [](\A r \in Req :
          /\ nFetch[r] <= 1
          /\ (NetworkFailure(r) \/ ErrorStatus(r)) =>
               Len(res[r]) = 1 /\ outbound[r] = <<>> /\ apiKey[r] # Undefined)
  /\ [](Len(drawn) = Cardinality(Calls))
  /\ [][ /\ \A r \in Req :
              pc[r] # "idle" =>
                /\ nFetch'[r] = nFetch[r]
                /\ apiKey'[r] = apiKey[r]
                /\ outbound'[r] \in {outbound[r], <<>>}
          /\ Len(drawn') =
               Len(drawn) + Cardinality({q \in Req : nFetch'[q] > nFetch[q]}) ]_vars

\* The proxy met a rejected fetch on one request and relayed a 404 on
\* another: two calls, two draws.
SingleAttemptWitness ==
  \E r, q \in Req :
    /\ variant = "proxy"
    /\ NetworkFailure(r) /\ upstream[r] = <<>> /\ Answer(r).status = 502
    /\ ErrorStatus(q) /\ Answer(q).status = 404
    /\ nFetch[r] = 1 /\ nFetch[q] = 1 /\ Len(drawn) = 2

====
